---- MODULE Spec2Model ----
(***************************************************************************)
(* A model of the file organizer (organizer.py, config.py): one run of     *)
(* main() or of organize_folder() over a source directory, and the pure    *)
(* helpers normalize_extension, get_category and make_safe_target.         *)
(*                                                                         *)
(* Strings are sequences of one-character strings, so that the extension   *)
(* split, the lowercasing and the "{stem} ({n}){suffix}" formatting are    *)
(* computed as the code computes them.  A path is a sequence of names      *)
(* relative to the source directory: <<name>> is a top-level entry,        *)
(* <<dir, name>> an entry of a subfolder.                                  *)
(***************************************************************************)
EXTENDS Integers, Sequences, FiniteSets, TLC

VARIABLES
    pc,          \* position of the run
    entryPoint,  \* "main" or "organize_folder" (a direct call with a logger)
    srcKind,     \* what the source path is: "dir", "missing" or "file"
    listable,    \* whether os.scandir(source) can open the directory
    handlers,    \* the "file_organizer" logger already has a handler
    logSink,     \* where the handler writes: "none", "source", "elsewhere"
    fs,          \* the tree under the source: path -> node
    fs0,         \* the tree when the run started
    log,         \* the records the handler wrote, in order
    pending,     \* entries of the scandir listing not yet visited
    listing,     \* the entries scandir enumerated
    attempts,    \* what the loop did for each visited entry, in order
    faults,      \* environment failures injected so far
    outcome,     \* "running", "completed", "source_not_found", "fault", "crash"
    exitCode,    \* {} until the process exits, then {code}
    pname,       \* input of a helper call: the file name
    pname2,      \* a second name, equal to pname up to letter case
    pmap,        \* the mapping handed to get_category / organize_folder
    pret,        \* what the helper returned
    pcount       \* how many safe targets have been placed

vars == <<pc, entryPoint, srcKind, listable, handlers, logSink, fs, fs0, log,
          pending, listing, attempts, faults, outcome, exitCode,
          pname, pname2, pmap, pret, pcount>>

runVars == <<entryPoint, srcKind, listable, handlers, logSink, fs0, log,
             pending, listing, faults, outcome, exitCode>>

-----------------------------------------------------------------------------
(* Bounds of the model.                                                    *)

MaxTop == 2
MaxSeed == 2
MaxFaults == 1
MaxNameLen == 4
MaxRun == 10
MaxPlace == 2

-----------------------------------------------------------------------------
(* Names used by the scenarios.                                            *)

N_Images == <<"I", "m", "a", "g", "e", "s">>
N_Documents == <<"D", "o", "c", "u", "m", "e", "n", "t", "s">>
N_Others == <<"O", "t", "h", "e", "r", "s">>
N_a_jpg == <<"a", ".", "j", "p", "g">>
N_b_pdf == <<"b", ".", "p", "d", "f">>
N_notes == <<"n", "o", "t", "e", "s">>
N_old == <<"o", "l", "d">>
N_report_pdf == <<"r", "e", "p", "o", "r", "t", ".", "p", "d", "f">>
N_report_1_pdf == <<"r", "e", "p", "o", "r", "t", " ", "(", "1", ")", ".", "p", "d", "f">>
N_report_2_pdf == <<"r", "e", "p", "o", "r", "t", " ", "(", "2", ")", ".", "p", "d", "f">>
N_report_11_pdf == <<"r", "e", "p", "o", "r", "t", " ", "(", "1", "1", ")", ".", "p", "d", "f">>
N_Photo_JPG == <<"P", "h", "o", "t", "o", ".", "J", "P", "G">>
N_photo_jpg == <<"p", "h", "o", "t", "o", ".", "j", "p", "g">>
N_data_xyz == <<"d", "a", "t", "a", ".", "x", "y", "z">>
N_README == <<"R", "E", "A", "D", "M", "E">>
N_bashrc == <<".", "b", "a", "s", "h", "r", "c">>
N_a_tar_gz == <<"a", ".", "t", "a", "r", ".", "g", "z">>

-----------------------------------------------------------------------------
(* config.py                                                               *)

CATEGORY_MAP ==
  <<
    [category |-> <<"I", "m", "a", "g", "e", "s">>,
     exts |-> << <<"j", "p", "g">>,
               <<"j", "p", "e", "g">>,
               <<"p", "n", "g">>,
               <<"g", "i", "f">>,
               <<"b", "m", "p">>,
               <<"t", "i", "f", "f">>,
               <<"w", "e", "b", "p">>,
               <<"s", "v", "g">> >>],
    [category |-> <<"D", "o", "c", "u", "m", "e", "n", "t", "s">>,
     exts |-> << <<"p", "d", "f">>,
               <<"d", "o", "c">>,
               <<"d", "o", "c", "x">>,
               <<"t", "x", "t">>,
               <<"r", "t", "f">>,
               <<"o", "d", "t">>,
               <<"x", "l", "s">>,
               <<"x", "l", "s", "x">>,
               <<"p", "p", "t">>,
               <<"p", "p", "t", "x">>,
               <<"m", "d">>,
               <<"c", "s", "v">> >>],
    [category |-> <<"V", "i", "d", "e", "o", "s">>,
     exts |-> << <<"m", "p", "4">>,
               <<"m", "k", "v">>,
               <<"m", "o", "v">>,
               <<"a", "v", "i">>,
               <<"w", "m", "v">>,
               <<"f", "l", "v">>,
               <<"w", "e", "b", "m">> >>],
    [category |-> <<"A", "u", "d", "i", "o">>,
     exts |-> << <<"m", "p", "3">>,
               <<"w", "a", "v">>,
               <<"a", "a", "c">>,
               <<"f", "l", "a", "c">>,
               <<"o", "g", "g">>,
               <<"m", "4", "a">> >>],
    [category |-> <<"A", "r", "c", "h", "i", "v", "e", "s">>,
     exts |-> << <<"z", "i", "p">>,
               <<"r", "a", "r">>,
               <<"7", "z">>,
               <<"t", "a", "r">>,
               <<"g", "z">>,
               <<"b", "z", "2">>,
               <<"x", "z">> >>]
  >>

-----------------------------------------------------------------------------
(* organizer.py: constants                                                 *)

LOG_FILENAME == <<"l", "o", "g", ".", "t", "x", "t">>

\* setup_logger: logger.setLevel(logging.INFO)
LOGGER_LEVEL == "INFO"

\* The numeric order of the levels of Python's logging module.
LevelNo == [DEBUG |-> 10, INFO |-> 20, ERROR |-> 40]

\* main: return 0
EXIT_COMPLETE == 0
\* main: return 2, in the handler of "except Exception"
EXIT_UNHANDLED == 2
\* The status of the interpreter when an exception leaves main() uncaught.
EXIT_UNCAUGHT == 1

\* The value safe_move returns on error.
None == <<>>

-----------------------------------------------------------------------------
(* Strings                                                                 *)

UpperLetters == <<"A", "B", "C", "D", "E", "F", "G", "H", "I", "J", "K", "L", "M",
                  "N", "O", "P", "Q", "R", "S", "T", "U", "V", "W", "X", "Y", "Z">>
LowerLetters == <<"a", "b", "c", "d", "e", "f", "g", "h", "i", "j", "k", "l", "m",
                  "n", "o", "p", "q", "r", "s", "t", "u", "v", "w", "x", "y", "z">>
Digits == <<"0", "1", "2", "3", "4", "5", "6", "7", "8", "9">>

Range(s) == {s[i] : i \in DOMAIN s}

\* str.lower(), one character
LowerChar(c) ==
    IF \E i \in DOMAIN UpperLetters : UpperLetters[i] = c
    THEN LowerLetters[CHOOSE i \in DOMAIN UpperLetters : UpperLetters[i] = c]
    ELSE c

\* str.lower()
Lower(s) == [i \in 1..Len(s) |-> LowerChar(s[i])]

\* str.lstrip(".")
RECURSIVE LStripDot(_)
LStripDot(s) ==
    IF s # <<>> /\ Head(s) = "." THEN LStripDot(Tail(s)) ELSE s

\* str.rfind("."), 1-based; 0 when there is no dot
RFindDot(s) ==
    IF \E i \in DOMAIN s : s[i] = "."
    THEN CHOOSE i \in DOMAIN s : s[i] = "." /\ \A k \in DOMAIN s : s[k] = "." => k <= i
    ELSE 0

\* Path(name).suffix: from the last dot on, unless that dot is the first or
\* the last character of the name (pathlib's rule up to Python 3.13).
Suffix(name) ==
    LET i == RFindDot(name)
    IN  IF 1 < i /\ i < Len(name) THEN SubSeq(name, i, Len(name)) ELSE <<>>

\* Path(name).stem: the name without its suffix.
Stem(name) ==
    LET i == RFindDot(name)
    IN  IF 1 < i /\ i < Len(name) THEN SubSeq(name, 1, i - 1) ELSE name

\* f"{counter}": the decimal digits of a positive integer
RECURSIVE DecStr(_)
DecStr(n) ==
    IF n < 10 THEN <<Digits[n + 1]>>
    ELSE DecStr(n \div 10) \o <<Digits[(n % 10) + 1]>>

-----------------------------------------------------------------------------
(* organizer.py: normalize_extension, get_category                         *)

\* Mutant: the extension is not lowercased.
normalize_extension_NoLower(name) == LStripDot(Suffix(name))

normalize_extension(name) == LStripDot(Lower(Suffix(name)))

\* the loop "for category, exts in mapping.items()", from position i on
RECURSIVE CategoryFrom(_, _, _)
CategoryFrom(ext, mapping, i) ==
    IF i > Len(mapping) THEN N_Others
    ELSE IF ext \in Range(mapping[i].exts) THEN mapping[i].category
    ELSE CategoryFrom(ext, mapping, i + 1)

get_category(ext, mapping) ==
    IF ext = <<>> THEN N_Others ELSE CategoryFrom(ext, mapping, 1)

-----------------------------------------------------------------------------
(* The tree under the source directory                                     *)

FileNode(data) == [kind |-> "file", data |-> data]
DirNode == [kind |-> "dir", data |-> <<>>]

Exists(tree, p) == p \in DOMAIN tree
IsDir(tree, p) == p \in DOMAIN tree /\ tree[p].kind = "dir"
IsFile(tree, p) == p \in DOMAIN tree /\ tree[p].kind = "file"

Put(tree, p, node) ==
    [q \in DOMAIN tree \cup {p} |-> IF q = p THEN node ELSE tree[q]]
Drop(tree, p) == [q \in DOMAIN tree \ {p} |-> tree[q]]

TopNames(tree) == {p[1] : p \in {q \in DOMAIN tree : Len(q) = 1}}

EmptyTree == [p \in {} |-> DirNode]

-----------------------------------------------------------------------------
(* Logging                                                                 *)

Record(level, msg, src, dst) == [level |-> level, msg |-> msg, src |-> src, dst |-> dst]

\* Logger.debug / info / error: a record below the logger's level is dropped.
Emit(lg, level, msg, src, dst) ==
    IF LevelNo[level] >= LevelNo[LOGGER_LEVEL]
    THEN Append(lg, Record(level, msg, src, dst))
    ELSE lg

-----------------------------------------------------------------------------
(* organizer.py: ensure_dir, make_safe_target, safe_move                   *)

\* Path.mkdir(parents=True, exist_ok=True).  The parent is the source
\* directory, which exists during the scan.  fault = "mkdir" is the
\* environment refusing to create the directory.
ensure_dir(tree, path, fault) ==
    IF IsDir(tree, path) THEN [ok |-> TRUE, tree |-> tree]
    ELSE IF Exists(tree, path) THEN [ok |-> FALSE, tree |-> tree]
    ELSE IF fault = "mkdir" THEN [ok |-> FALSE, tree |-> tree]
    ELSE [ok |-> TRUE, tree |-> Put(tree, path, DirNode)]

\* new_name = f"{name} ({counter}){suffix}"
Candidate(name, suffix, counter) ==
    name \o <<" ", "(">> \o DecStr(counter) \o <<")">> \o suffix

\* the "while True" loop of make_safe_target, entered with the given counter
RECURSIVE ProbeFrom(_, _, _, _, _)
ProbeFrom(tree, target_dir, name, suffix, counter) ==
    LET new_target == Append(target_dir, Candidate(name, suffix, counter))
    IN  IF ~Exists(tree, new_target) THEN new_target
        ELSE ProbeFrom(tree, target_dir, name, suffix, counter + 1)

\* Mutant: the requested path is returned without looking whether it exists.
make_safe_target_NoProbe(tree, target_dir, filename) == Append(target_dir, filename)

\* Mutant: the counter starts at 0.
make_safe_target_FromZero(tree, target_dir, filename) ==
    LET target == Append(target_dir, filename)
    IN  IF ~Exists(tree, target) THEN target
        ELSE ProbeFrom(tree, target_dir, Stem(filename), Suffix(filename), 0)

make_safe_target(tree, target_dir, filename) ==
    LET target == Append(target_dir, filename)
    IN  IF ~Exists(tree, target) THEN target
        ELSE ProbeFrom(tree, target_dir, Stem(filename), Suffix(filename), 1)

\* shutil.move(src, dst): a rename; into dst when dst is a directory, and an
\* error when the name is already taken there.
shutil_move(tree, src, dst) ==
    IF IsDir(tree, dst)
    THEN LET real_dst == Append(dst, src[Len(src)])
         IN  IF Exists(tree, real_dst) THEN [ok |-> FALSE, tree |-> tree]
             ELSE [ok |-> TRUE, tree |-> Put(Drop(tree, src), real_dst, tree[src])]
    ELSE [ok |-> TRUE, tree |-> Put(Drop(tree, src), dst, tree[src])]

\* Mutant: the failure is swallowed without a log record.
SafeMoveFailed_Silent(tree, lg, src, dest_dir) ==
    [tree |-> tree, log |-> lg, ret |-> None, raised |-> FALSE]

\* The "except Exception" branch of safe_move: log the failure, return None.
SafeMoveFailed(tree, lg, src, dest_dir) ==
    [tree |-> tree, log |-> Emit(lg, "ERROR", "Failed to move", src, dest_dir),
     ret |-> None, raised |-> FALSE]

\* fault = "move" is the environment failing shutil.move (permission denied,
\* file in use, disk full); the move is then not performed.
safe_move(tree, lg, src, dest_dir, fault) ==
    LET d == ensure_dir(tree, dest_dir, fault)
    IN  IF ~d.ok THEN SafeMoveFailed(d.tree, lg, src, dest_dir)
        ELSE LET target == make_safe_target(d.tree, dest_dir, src[Len(src)])
                 m == IF fault = "move" THEN [ok |-> FALSE, tree |-> d.tree]
                      ELSE shutil_move(d.tree, src, target)
             IN  IF ~m.ok THEN SafeMoveFailed(m.tree, lg, src, dest_dir)
                 ELSE [tree |-> m.tree,
                       log |-> Emit(lg, "INFO", "Moved", src, target),
                       ret |-> target, raised |-> FALSE]

\* Whether the environment can fail this call of safe_move at that point.
FaultApplies(tree, dest_dir, fault) ==
    CASE fault = "none" -> TRUE
      [] fault = "mkdir" -> ~Exists(tree, dest_dir)
      [] fault = "move" -> ensure_dir(tree, dest_dir, "none").ok

-----------------------------------------------------------------------------
(* organizer.py: organize_folder                                           *)

\* dest_dir = source / category
DestDir(name, mapping) == <<get_category(normalize_extension(name), mapping)>>

\* Mutant: every entry counts as a file.
is_file_Any(tree, name) == Exists(tree, <<name>>)

\* entry.is_file(): a directory (or anything that is no regular file) is not.
is_file(tree, name) == IsFile(tree, <<name>>)

\* The body of "for entry in it": one entry of the listing.  An exception
\* that safe_move let through is caught here, logged, and the loop goes on.
organize_entry(tree, lg, name, mapping, fault) ==
    IF is_file(tree, name)
    THEN LET dest_dir == DestDir(name, mapping)
             r == safe_move(tree, lg, <<name>>, dest_dir, fault)
         IN  [tree |-> r.tree,
              log |-> IF r.raised
                      THEN Emit(r.log, "ERROR", "Error processing", <<name>>, None)
                      ELSE r.log,
              att |-> [name |-> name, is_file |-> TRUE,
                       dest_dir |-> dest_dir, ret |-> r.ret]]
    ELSE [tree |-> tree,
          log |-> Emit(lg, "DEBUG", "Skipped directory", <<name>>, None),
          att |-> [name |-> name, is_file |-> FALSE,
                   dest_dir |-> None, ret |-> None]]

\* organize_folder's loop over the listing in the given order, with no
\* environment failure.
RECURSIVE ScanInOrder(_, _, _, _)
ScanInOrder(tree, lg, order, mapping) ==
    IF order = <<>> THEN [tree |-> tree, log |-> lg, atts |-> <<>>]
    ELSE LET r == organize_entry(tree, lg, Head(order), mapping, "none")
             rest == ScanInOrder(r.tree, r.log, Tail(order), mapping)
         IN  [tree |-> rest.tree, log |-> rest.log, atts |-> <<r.att>> \o rest.atts]

-----------------------------------------------------------------------------
(* organizer.py: setup_logger, main                                        *)

\* logging.FileHandler(log_path) opens the file for appending at once: it
\* creates log.txt in the source, and raises when the source is no directory
\* (or log.txt is one).  A logger that already has a handler keeps it.
setup_logger(tree, kind, has) ==
    IF has THEN [ok |-> TRUE, tree |-> tree, sink |-> "elsewhere"]
    ELSE IF kind # "dir" \/ IsDir(tree, <<LOG_FILENAME>>)
    THEN [ok |-> FALSE, tree |-> tree, sink |-> "none"]
    ELSE [ok |-> TRUE,
          tree |-> IF Exists(tree, <<LOG_FILENAME>>) THEN tree
                   ELSE Put(tree, <<LOG_FILENAME>>, FileNode(<<LOG_FILENAME>>)),
          sink |-> "source"]

\* The exit code main returns for an exception that organize_folder raised.
ExceptionExitCode(cause) == EXIT_UNHANDLED

-----------------------------------------------------------------------------
(* Starting trees                                                          *)

TopPool ==
    { [name |-> N_a_jpg, kind |-> "file"],
      [name |-> N_notes, kind |-> "file"],
      [name |-> N_report_pdf, kind |-> "file"],
      [name |-> N_report_1_pdf, kind |-> "file"],
      [name |-> N_Images, kind |-> "file"],
      [name |-> N_Images, kind |-> "dir"],
      [name |-> N_Documents, kind |-> "dir"],
      [name |-> N_old, kind |-> "dir"] }

SeedPool ==
    { [dir |-> N_Images, name |-> N_a_jpg, kind |-> "file"],
      [dir |-> N_Documents, name |-> N_report_pdf, kind |-> "file"],
      [dir |-> N_Documents, name |-> N_report_pdf, kind |-> "dir"],
      [dir |-> N_Documents, name |-> N_report_1_pdf, kind |-> "file"],
      [dir |-> N_old, name |-> N_notes, kind |-> "file"],
      [dir |-> N_old, name |-> N_old, kind |-> "dir"] }

NodeOf(kind, path) == IF kind = "dir" THEN DirNode ELSE FileNode(path)

TreeOf(T, S) ==
    LET paths == {<<t.name>> : t \in T} \cup {<<s.dir, s.name>> : s \in S}
    IN  [p \in paths |->
            IF Len(p) = 1
            THEN NodeOf((CHOOSE t \in T : t.name = p[1]).kind, p)
            ELSE NodeOf((CHOOSE s \in S : s.dir = p[1] /\ s.name = p[2]).kind, p)]

TopChoices ==
    {T \in SUBSET TopPool :
        /\ Cardinality(T) <= MaxTop
        /\ \A a, b \in T : a.name = b.name => a = b}

SeedChoices(T) ==
    {S \in SUBSET SeedPool :
        /\ Cardinality(S) <= MaxSeed
        /\ \A s \in S : [name |-> s.dir, kind |-> "dir"] \in T
        /\ \A a, b \in S : (a.dir = b.dir /\ a.name = b.name) => a = b}

\* The end-to-end scenario: a.jpg, b.pdf, notes and the subdirectory old/.
EndToEndTree ==
    TreeOf({ [name |-> N_a_jpg, kind |-> "file"],
             [name |-> N_b_pdf, kind |-> "file"],
             [name |-> N_notes, kind |-> "file"],
             [name |-> N_old, kind |-> "dir"] },
           { [dir |-> N_old, name |-> N_notes, kind |-> "file"] })

StartTrees ==
    {TreeOf(T, S) : <<T, S>> \in {<<T, S>> \in TopChoices \X SUBSET SeedPool : S \in SeedChoices(T)}}
        \cup {EndToEndTree}

-----------------------------------------------------------------------------
(* One run                                                                 *)

HelperIdle ==
    /\ pname = <<>>
    /\ pname2 = <<>>
    /\ pmap = CATEGORY_MAP
    /\ pret = <<>>
    /\ pcount = 0

Init ==
    /\ entryPoint \in {"main", "organize_folder"}
    /\ pc = entryPoint
    /\ handlers \in BOOLEAN
    /\ entryPoint = "organize_folder" => handlers
    /\ logSink = IF handlers THEN "elsewhere" ELSE "none"
    /\ srcKind \in {"dir", "missing", "file"}
    /\ listable \in BOOLEAN
    /\ srcKind # "dir" => listable
    /\ fs \in StartTrees
    /\ srcKind # "dir" => fs = EmptyTree
    /\ fs0 = fs
    /\ log = <<>>
    /\ pending = {}
    /\ listing = {}
    /\ attempts = <<>>
    /\ faults = 0
    /\ outcome = "running"
    /\ exitCode = {}
    /\ HelperIdle

\* main, lines 135-141: setup_logger, then the "Starting" record.  An
\* exception of setup_logger is outside main's try block.
MainSetup ==
    /\ pc = "main"
    /\ LET s == setup_logger(fs, srcKind, handlers)
       IN  IF s.ok
           THEN /\ fs' = s.tree
                /\ logSink' = s.sink
                /\ handlers' = TRUE
                /\ log' = Emit(log, "INFO", "Starting organization", None, None)
                /\ pc' = "organize_folder"
                /\ UNCHANGED <<outcome, exitCode>>
           ELSE /\ outcome' = "crash"
                /\ exitCode' = {EXIT_UNCAUGHT}
                /\ pc' = "done"
                /\ UNCHANGED <<fs, logSink, handlers, log>>
    /\ UNCHANGED <<entryPoint, srcKind, listable, fs0, pending, listing, attempts,
                   faults, pname, pname2, pmap, pret, pcount>>

\* An exception leaves organize_folder: main logs it and returns 2; a direct
\* caller receives it.
Raised(lg, cause) ==
    /\ outcome' = cause
    /\ pc' = "done"
    /\ IF entryPoint = "main"
       THEN /\ log' = Emit(lg, "ERROR", "Unhandled error", None, None)
            /\ exitCode' = {ExceptionExitCode(cause)}
       ELSE /\ log' = lg
            /\ exitCode' = {}

\* organize_folder, lines 102-104
SourceInvalid ==
    /\ pc = "organize_folder"
    /\ srcKind # "dir"
    /\ Raised(Emit(log, "ERROR", "Source folder does not exist", None, None),
              "source_not_found")
    /\ UNCHANGED <<entryPoint, srcKind, listable, handlers, logSink, fs, fs0,
                   pending, listing, attempts, faults,
                   pname, pname2, pmap, pret, pcount>>

\* organize_folder, line 107: os.scandir(source) raises when the directory
\* cannot be opened; nothing catches that inside organize_folder.
ScandirFails ==
    /\ pc = "organize_folder"
    /\ srcKind = "dir"
    /\ ~listable
    /\ Raised(log, "fault")
    /\ UNCHANGED <<entryPoint, srcKind, listable, handlers, logSink, fs, fs0,
                   pending, listing, attempts, faults,
                   pname, pname2, pmap, pret, pcount>>

\* organize_folder, line 107: the listing of the top-level entries
Scandir ==
    /\ pc = "organize_folder"
    /\ srcKind = "dir"
    /\ listable
    /\ listing' = TopNames(fs)
    /\ pending' = TopNames(fs)
    /\ pc' = "scan"
    /\ UNCHANGED <<entryPoint, srcKind, listable, handlers, logSink, fs, fs0, log,
                   attempts, faults, outcome, exitCode,
                   pname, pname2, pmap, pret, pcount>>

\* organize_folder, lines 108-119: the next entry, in whatever order the
\* operating system lists them.
ScanEntry ==
    /\ pc = "scan"
    /\ \E name \in pending, fault \in {"none", "mkdir", "move"} :
        /\ fault # "none" =>
              /\ faults < MaxFaults
              /\ IsFile(fs, <<name>>)
              /\ FaultApplies(fs, DestDir(name, pmap), fault)
        /\ LET r == organize_entry(fs, log, name, pmap, fault)
           IN  /\ fs' = r.tree
               /\ log' = r.log
               /\ attempts' = Append(attempts, r.att)
        /\ pending' = pending \ {name}
        /\ faults' = IF fault = "none" THEN faults ELSE faults + 1
    /\ UNCHANGED <<pc, entryPoint, srcKind, listable, handlers, logSink, fs0,
                   listing, outcome, exitCode, pname, pname2, pmap, pret, pcount>>

\* The loop ends; main, lines 144-145: "Organization complete", return 0.
ScanDone ==
    /\ pc = "scan"
    /\ pending = {}
    /\ outcome' = "completed"
    /\ pc' = "done"
    /\ IF entryPoint = "main"
       THEN /\ log' = Emit(log, "INFO", "Organization complete", None, None)
            /\ exitCode' = {EXIT_COMPLETE}
       ELSE UNCHANGED <<log, exitCode>>
    /\ UNCHANGED <<entryPoint, srcKind, listable, handlers, logSink, fs, fs0,
                   pending, listing, attempts, faults,
                   pname, pname2, pmap, pret, pcount>>

Next ==
    \/ MainSetup
    \/ SourceInvalid
    \/ ScandirFails
    \/ Scandir
    \/ ScanEntry
    \/ ScanDone

Spec == Init /\ [][Next]_vars

-----------------------------------------------------------------------------
(* Calls of the classification helpers on names drawn from a bounded set,  *)
(* followed by organize_folder on a source that holds that one file.       *)

Alphabet == {".", "m", "d", "M", "x"}

LiteralNames ==
    {N_Photo_JPG, N_photo_jpg, N_data_xyz, N_README, N_bashrc, N_Others,
     N_Images, N_a_tar_gz, N_report_pdf}

\* File names: not empty, and neither "." nor "..".
NamePool ==
    {s \in UNION {[1..n -> Alphabet] : n \in 1..MaxNameLen} :
        s \notin {<<".">>, <<".", ".">>}} \cup LiteralNames

IsPoolName(s) ==
    \/ s \in LiteralNames
    \/ /\ Len(s) \in 1..MaxNameLen
       /\ \A i \in DOMAIN s : s[i] \in Alphabet
       /\ s \notin {<<".">>, <<".", ".">>}

\* The character, and the same letter in the other case.
CaseVariants(c) ==
    {c} \cup {UpperLetters[i] : i \in {k \in DOMAIN UpperLetters : LowerLetters[k] = c}}
        \cup {LowerLetters[i] : i \in {k \in DOMAIN UpperLetters : UpperLetters[k] = c}}

\* The names that differ from s in letter case only.
RECURSIVE CaseTwins(_)
CaseTwins(s) ==
    IF s = <<>> THEN {<<>>}
    ELSE {<<c>> \o r : c \in CaseVariants(Head(s)), r \in CaseTwins(Tail(s))}

\* A mapping in which "md" is listed under two categories.
OverlapMap ==
    << [category |-> N_Images, exts |-> << <<"x">>, <<"m", "d">> >>],
       [category |-> N_Documents, exts |-> << <<"m", "d">>, <<"d">> >>] >>

InitClassify ==
    /\ pc = "classify"
    /\ pname \in NamePool
    /\ pname2 \in {t \in CaseTwins(pname) : IsPoolName(t)}
    /\ pmap \in {CATEGORY_MAP, OverlapMap}
    /\ pret = <<>>
    /\ pcount = 0
    /\ entryPoint = "organize_folder"
    /\ handlers = TRUE
    /\ logSink = "elsewhere"
    /\ srcKind = "dir"
    /\ listable = TRUE
    /\ fs = [p \in {<<pname>>} |-> FileNode(p)]
    /\ fs0 = fs
    /\ log = <<>>
    /\ pending = {}
    /\ listing = {}
    /\ attempts = <<>>
    /\ faults = 0
    /\ outcome = "running"
    /\ exitCode = {}

\* organize_folder, lines 111-112, for pname and for pname2
Classify ==
    /\ pc = "classify"
    /\ pret' = [ext |-> normalize_extension(pname),
                category |-> get_category(normalize_extension(pname), pmap),
                category2 |-> get_category(normalize_extension(pname2), pmap)]
    /\ pc' = "organize_folder"
    /\ UNCHANGED <<entryPoint, srcKind, listable, handlers, logSink, fs, fs0, log,
                   pending, listing, attempts, faults, outcome, exitCode,
                   pname, pname2, pmap, pcount>>

NextClassify ==
    \/ Classify
    \/ Scandir
    \/ ScanEntry
    \/ ScanDone

SpecClassify == InitClassify /\ [][NextClassify]_vars

-----------------------------------------------------------------------------
(* Calls of make_safe_target on a destination directory with bounded       *)
(* contents, each returned target then being taken by the move.            *)

NamerNames == {N_report_pdf, N_notes, N_bashrc, N_a_tar_gz}

NamerCandidate(name, n) == Candidate(Stem(name), Suffix(name), n)

\* name, "name (1)" .. "name (k)"
Taken(name, k) == {name} \cup {NamerCandidate(name, n) : n \in 1..k}

SmallPool(name) == Taken(name, 3) \cup {N_old}

NamerContents(name) ==
    (SUBSET SmallPool(name)) \cup {Taken(name, k) : k \in 0..MaxRun}

DirTree(dir, content) ==
    [p \in {<<dir>>} \cup {<<dir, n>> : n \in content} |->
        IF Len(p) = 1 THEN DirNode ELSE FileNode(p)]

Children(tree, dir) ==
    {p[2] : p \in {q \in DOMAIN tree : Len(q) = 2 /\ q[1] = dir}}

InitNamer ==
    /\ pc = "request"
    /\ pname \in NamerNames
    /\ pname2 = <<>>
    /\ pmap = CATEGORY_MAP
    /\ pret = <<>>
    /\ pcount = 0
    /\ entryPoint = "organize_folder"
    /\ handlers = TRUE
    /\ logSink = "elsewhere"
    /\ srcKind = "dir"
    /\ listable = TRUE
    /\ fs \in {DirTree(N_Documents, c) : c \in NamerContents(pname)}
    /\ fs0 = fs
    /\ log = <<>>
    /\ pending = {}
    /\ listing = {}
    /\ attempts = <<>>
    /\ faults = 0
    /\ outcome = "running"
    /\ exitCode = {}

\* safe_move, line 88
RequestTarget ==
    /\ pc = "request"
    /\ pret' = make_safe_target(fs, <<N_Documents>>, pname)
    /\ pc' = "place"
    /\ UNCHANGED <<fs, pcount>>
    /\ UNCHANGED <<pname, pname2, pmap, attempts>>
    /\ UNCHANGED runVars

\* safe_move, line 89: a file now occupies the returned target
PlaceTarget ==
    /\ pc = "place"
    /\ fs' = Put(fs, pret, FileNode(pret))
    /\ pcount' = pcount + 1
    /\ pc' = IF pcount + 1 < MaxPlace THEN "request" ELSE "done"
    /\ UNCHANGED <<pname, pname2, pmap, pret, attempts>>
    /\ UNCHANGED runVars

NextNamer ==
    \/ RequestTarget
    \/ PlaceTarget

SpecNamer == InitNamer /\ [][NextNamer]_vars

-----------------------------------------------------------------------------
(* Properties                                                              *)

Names(atts) == {atts[i].name : i \in DOMAIN atts}

\* The tree that the scan starts from: the starting tree, with the log file
\* that setup_logger created in the source.
TreeAtScan ==
    IF logSink = "source" /\ ~Exists(fs0, <<LOG_FILENAME>>)
    THEN Put(fs0, <<LOG_FILENAME>>, FileNode(<<LOG_FILENAME>>))
    ELSE fs0

Parent(p) == SubSeq(p, 1, Len(p) - 1)

CategoryNames(mapping) == {mapping[i].category : i \in DOMAIN mapping} \cup {N_Others}

\* ---- C1 ----

\* No content is lost, every entry that was inside a subfolder before the run
\* is still at its path with its content, and a moved file that met an entry
\* of its own name in the destination sits beside it under another path.
NoOverwriteState ==
    /\ \A p \in DOMAIN fs0 :
          fs0[p].kind = "file" => \E q \in DOMAIN fs : fs[q] = fs0[p]
    /\ \A p \in DOMAIN fs0 : Len(p) = 2 => (p \in DOMAIN fs /\ fs[p] = fs0[p])
    /\ \A i \in DOMAIN attempts :
          LET a == attempts[i]
          IN  a.ret # None =>
                /\ Parent(a.ret) = a.dest_dir
                /\ a.ret \notin DOMAIN fs0
                /\ IsFile(fs, a.ret)
                /\ fs[a.ret] = TreeAtScan[<<a.name>>]

\* A file that safe_move relocates lands on a path that did not exist
\* immediately before the move.
MoveLandsOnFreePath ==
    (Len(attempts') = Len(attempts) + 1 /\ attempts'[Len(attempts')].ret # None)
        => ~Exists(fs, attempts'[Len(attempts')].ret)

\* C1: a run never overwrites or deletes an existing file: what was inside a
\* category subfolder stays at its path with its content, every relocated
\* file lands on a path that did not exist just before its move, and two
\* files of one name bound for one category both survive under distinct paths.
NoOverwrite == []NoOverwriteState /\ [][MoveLandsOnFreePath]_vars

\* A file was moved into a category folder that already held a file of the
\* same name, and the run has ended.
NoOverwriteWitness ==
    /\ pc = "done"
    /\ \E i \in DOMAIN attempts :
          /\ attempts[i].ret # None
          /\ IsFile(fs0, Append(attempts[i].dest_dir, attempts[i].name))
          /\ attempts[i].ret # Append(attempts[i].dest_dir, attempts[i].name)

\* ---- C2 ----

\* The stem and the extension of the names the namer is asked about.
SplitOf(name) ==
    CASE name = N_report_pdf -> [stem |-> <<"r", "e", "p", "o", "r", "t">>,
                                 ext |-> <<".", "p", "d", "f">>]
      [] name = N_notes -> [stem |-> N_notes, ext |-> <<>>]
      [] name = N_bashrc -> [stem |-> N_bashrc, ext |-> <<>>]
      [] name = N_a_tar_gz -> [stem |-> <<"a", ".", "t", "a", "r">>,
                               ext |-> <<".", "g", "z">>]

Numbered(name, n) ==
    SplitOf(name).stem \o <<" ", "(">> \o DecStr(n) \o <<")">> \o SplitOf(name).ext

\* C2: make_safe_target returns dir/filename when that path does not exist,
\* and otherwise dir/"{stem} ({n}){extension}" for the smallest n >= 1 whose
\* candidate does not exist; the returned path does not exist; with
\* report.pdf present the result is report (1).pdf, with that placed too it is
\* report (2).pdf, and the counter goes on past any number of taken names.
SafeTargetCorrect ==
    pc = "place" =>
        LET dir == <<N_Documents>>
            target == <<N_Documents, pname>>
            taken == Children(fs, N_Documents)
        IN  /\ ~Exists(fs, pret)
            /\ ~Exists(fs, target) => pret = target
            /\ Exists(fs, target) =>
                  \E n \in 1..(Cardinality(taken) + 1) :
                      /\ pret = Append(dir, Numbered(pname, n))
                      /\ \A m \in 1..(n - 1) : Exists(fs, Append(dir, Numbered(pname, m)))
            /\ (pname = N_report_pdf /\ taken = {N_report_pdf})
                  => pret = <<N_Documents, N_report_1_pdf>>
            /\ (pname = N_report_pdf /\ taken = {N_report_pdf, N_report_1_pdf})
                  => pret = <<N_Documents, N_report_2_pdf>>
            /\ (pname = N_report_pdf /\ taken = Taken(N_report_pdf, 10))
                  => pret = <<N_Documents, N_report_11_pdf>>

\* The second request for report.pdf, the first having been placed as
\* report (1).pdf, returns report (2).pdf.
SafeTargetWitness ==
    /\ pc = "place"
    /\ pname = N_report_pdf
    /\ pcount = 1
    /\ Children(fs0, N_Documents) = {N_report_pdf}
    /\ pret = <<N_Documents, N_report_2_pdf>>

\* ---- C3 ----

\* The category the classification is to give: by the lowercased text after
\* the last dot; "Others" for a name with no dot, with a leading dot only, or
\* with an extension that no category lists.
SpecCategory(name, mapping) ==
    LET dots == {i \in DOMAIN name : name[i] = "."}
    IN  IF dots = {} \/ dots = {1} THEN N_Others
        ELSE LET last == CHOOSE i \in dots : \A k \in dots : k <= i
                 ext == [i \in 1..(Len(name) - last) |-> LowerChar(name[last + i])]
                 hits == {i \in DOMAIN mapping :
                             \E k \in DOMAIN mapping[i].exts : mapping[i].exts[k] = ext}
             IN  IF hits = {} THEN N_Others
                 ELSE mapping[CHOOSE i \in hits : \A k \in hits : i <= k].category

SourceMissingAborts ==
    (pc = "done" /\ srcKind # "dir") =>
        /\ fs = fs0
        /\ outcome # "completed"
        /\ \E k \in DOMAIN log :
              /\ log[k].level = "ERROR"
              /\ log[k].msg = "Source folder does not exist"

\* ---- C5 ----

Count(lg, level, msg) ==
    Cardinality({k \in DOMAIN lg : lg[k].level = level /\ lg[k].msg = msg})

\* C5: every directory that the scan skips produces a DEBUG record in the
\* log; after a run over a.jpg, b.pdf, notes and old/ the log holds at least
\* three INFO move records and one DEBUG skip record.
SkipsAreLogged ==
    (pc = "done" /\ outcome = "completed") =>
        /\ \A i \in DOMAIN attempts :
              ~attempts[i].is_file =>
                  \E k \in DOMAIN log :
                      /\ log[k].level = "DEBUG"
                      /\ log[k].src = <<attempts[i].name>>
        /\ (fs0 = EndToEndTree /\ faults = 0) =>
              /\ Count(log, "INFO", "Moved") >= 3
              /\ Count(log, "DEBUG", "Skipped directory") >= 1

\* ---- C6 ----

\* C6: in a run started through main(), log.txt is created in the source
\* before the scan and is still at source/log.txt when the run ends.
LogStaysInSource ==
    (entryPoint = "main" /\ logSink = "source") => IsFile(fs, <<LOG_FILENAME>>)

\* ---- C7 ----

\* Every directory at the top level is still there, what it held is still
\* in it unchanged, and no directory appeared below the top level.
DirectoriesKept ==
    /\ \A p \in DOMAIN fs0 :
          /\ (Len(p) = 1 /\ fs0[p].kind = "dir") => IsDir(fs, p)
          /\ Len(p) = 2 => (p \in DOMAIN fs /\ fs[p] = fs0[p])
    /\ \A p \in DOMAIN fs :
          (Len(p) >= 2 /\ fs[p].kind = "dir") => p \in DOMAIN fs0

\* C7 (as stated): every top-level directory is still at its path with its
\* contents untouched, and no category subfolder holds a directory that the
\* run put there.
DirectoriesUntouched ==
    /\ DirectoriesKept
    /\ \A p \in DOMAIN fs0 :
          (Len(p) = 1 /\ fs0[p].kind = "dir")
              => Children(fs, p[1]) = Children(fs0, p[1])

\* C7 (amended): every top-level directory is still at its path and every
\* entry it held is still in it unchanged; only a directory named after a
\* category gains entries (the files the run moved into it); no category
\* subfolder holds a directory that the run put there.
DirectoriesStay ==
    /\ DirectoriesKept
    /\ \A p \in DOMAIN fs0 :
          (Len(p) = 1 /\ fs0[p].kind = "dir" /\ p[1] \notin CategoryNames(pmap))
              => Children(fs, p[1]) = Children(fs0, p[1])

\* The run skipped a directory that held an entry, and moved a file into a
\* category folder that existed, with an entry in it, before the run.
DirectoriesWitness ==
    /\ pc = "done"
    /\ \E i \in DOMAIN attempts :
          /\ ~attempts[i].is_file
          /\ Children(fs0, attempts[i].name) # {}
    /\ \E i \in DOMAIN attempts :
          /\ attempts[i].ret # None
          /\ IsDir(fs0, attempts[i].dest_dir)

\* ---- C8 ----

FailureLogged(a) ==
    \E k \in DOMAIN log :
        /\ log[k].level = "ERROR"
        /\ log[k].src = <<a.name>>
        /\ log[k].dst = a.dest_dir

\* A failed entry is logged as an ERROR and its file is where it was; every
\* listed entry is visited once.
EntriesIsolated ==
    /\ \A i \in DOMAIN attempts :
          LET a == attempts[i]
          IN  (a.is_file /\ a.ret = None) =>
                /\ IsFile(fs, <<a.name>>)
                /\ fs[<<a.name>>] = TreeAtScan[<<a.name>>]
                /\ FailureLogged(a)
    /\ pc = "scan" =>
          /\ Names(attempts) \cup pending = listing
          /\ Names(attempts) \cap pending = {}
          /\ Len(attempts) = Cardinality(Names(attempts))

CompletedAll ==
    /\ outcome = "completed"
    /\ Names(attempts) = listing
    /\ Len(attempts) = Cardinality(listing)
    /\ entryPoint = "main" => exitCode = {0}

ExitCodesDistinct ==
    (pc = "done" /\ entryPoint = "main") =>
        /\ outcome = "completed" => exitCode = {0}
        /\ outcome # "completed" => (exitCode # {} /\ 0 \notin exitCode)
        /\ outcome = "fault" => exitCode = {EXIT_UNHANDLED}
        /\ outcome = "source_not_found" => exitCode # {EXIT_UNHANDLED}

\* ---- C10 ----

Orders(S) ==
    {s \in [1..Cardinality(S) -> S] : \A i, j \in DOMAIN s : s[i] = s[j] => i = j}

\* Where each content is, whatever the final name, and which directories exist.
Placement(tree) ==
    {<<Parent(p), tree[p].data>> : p \in {q \in DOMAIN tree : tree[q].kind = "file"}}
        \cup {<<p, <<>>>> : p \in {q \in DOMAIN tree : tree[q].kind = "dir"}}

Results(atts) == {<<atts[i].name, atts[i].ret = None>> : i \in DOMAIN atts}

\* C10: from a fixed starting tree every order of the listing gives the same
\* final tree and the same per-file outcomes, up to the numeric disambiguator.
ScanOrderIndependent ==
    (pc = "done" /\ outcome = "completed" /\ faults = 0) =>
        \A order \in Orders(listing) :
            LET r == ScanInOrder(TreeAtScan, <<>>, order, pmap)
            IN  /\ Placement(r.tree) = Placement(fs)
                /\ Results(r.atts) = Results(attempts)

====
